---------------------------- MODULE Spec2Model ----------------------------
(***************************************************************************)
(* SMART rainfall-runoff model (surfacelayer, subsurface, openwater) as a  *)
(* state machine over one grid cell.  Every array operation of the source  *)
(* is element-wise, so one cell carries the behaviour of each cell.        *)
(*                                                                         *)
(* Numbers are exact rationals <<n, d>> in lowest terms with d > 0; the    *)
(* not-a-number placeholder np.nan is <<0, 0>>.  Arithmetic on nan gives   *)
(* nan and every comparison with nan is FALSE, as in numpy.                *)
(***************************************************************************)
EXTENDS Integers, Sequences, FiniteSets, TLC

\* ------------------------------------------------------------------------
\* numpy float arithmetic, modelled exactly
\* ------------------------------------------------------------------------
Abs(x) == IF x < 0 THEN -x ELSE x

RECURSIVE GCD(_, _)
GCD(a, b) == IF b = 0 THEN a ELSE GCD(b, a % b)

NaN == <<0, 0>>

IsNaN(x) == x[2] = 0

Norm(n, d) ==
    IF n = 0 THEN <<0, 1>>
    ELSE LET g == GCD(Abs(n), d) IN <<n \div g, d \div g>>

R(n, d) == Norm(n, d)

Zero == <<0, 1>>

One == <<1, 1>>

Neg(x) == IF IsNaN(x) THEN NaN ELSE <<-x[1], x[2]>>

Add(x, y) ==
    IF IsNaN(x) \/ IsNaN(y) THEN NaN
    ELSE LET g == GCD(x[2], y[2])
         IN  Norm(x[1] * (y[2] \div g) + y[1] * (x[2] \div g),
                  (x[2] \div g) * y[2])

Sub(x, y) == Add(x, Neg(y))

Mul(x, y) ==
    IF IsNaN(x) \/ IsNaN(y) THEN NaN
    ELSE IF x[1] = 0 \/ y[1] = 0 THEN Zero
    ELSE LET g1 == GCD(Abs(x[1]), y[2])
             g2 == GCD(Abs(y[1]), x[2])
         IN  <<(x[1] \div g1) * (y[1] \div g2),
               (x[2] \div g2) * (y[2] \div g1)>>

\* the divisors of the source are the parameters theta_z, theta_sk, theta_fk,
\* theta_gk, theta_rk, the layer number and dt, all strictly positive here
Div(x, y) ==
    IF IsNaN(x) \/ IsNaN(y) \/ y[1] = 0 THEN NaN
    ELSE IF y[1] > 0 THEN Mul(x, <<y[2], y[1]>>)
    ELSE Mul(x, <<-y[2], -y[1]>>)

RECURSIVE Pow(_, _)
Pow(x, k) == IF k = 0 THEN One ELSE Mul(x, Pow(x, k - 1))

Lt(x, y) == ~IsNaN(x) /\ ~IsNaN(y) /\ Sub(x, y)[1] < 0

Le(x, y) == ~IsNaN(x) /\ ~IsNaN(y) /\ Sub(x, y)[1] <= 0

Gt(x, y) == Lt(y, x)

Ge(x, y) == Le(y, x)

\* ------------------------------------------------------------------------
\* bounds and inputs
\* ------------------------------------------------------------------------
\* number of timesteps the driver runs
MaxSteps == 3

\* soil_layers has six divisions
NumLayers == 6

Layers == 1..NumLayers

\* self.timedelta_in_seconds, the timestep length supplied by the driver
dt == R(2, 1)

\* precipitation and potential evapotranspiration rates of the forcing
PrecipitationSet == {R(0, 1), R(1, 4), R(1, 1), R(7, 2)}

PotentialEvapotranspirationSet == {R(0, 1), R(1, 4), R(1, 1)}

\* parameter values the components are constructed with: strictly positive
\* residence times (below and above dt) and soil depth
Quick == [theta_t |-> One, theta_c |-> One, theta_h |-> Zero, theta_d |-> R(1, 2), theta_s |-> Zero, theta_z |-> R(6, 1), theta_sk |-> One, theta_fk |-> R(4, 1), theta_gk |-> R(4, 1), theta_rk |-> One]

Slow == [theta_t |-> One, theta_c |-> R(1, 2), theta_h |-> R(1, 2), theta_d |-> R(1, 4), theta_s |-> Zero, theta_z |-> R(6, 1), theta_sk |-> R(4, 1), theta_fk |-> One, theta_gk |-> One, theta_rk |-> R(4, 1)]

Leaky == [theta_t |-> One, theta_c |-> R(1, 2), theta_h |-> R(1, 2), theta_d |-> R(1, 2), theta_s |-> R(3, 2), theta_z |-> R(6, 1), theta_sk |-> R(4, 1), theta_fk |-> R(4, 1), theta_gk |-> One, theta_rk |-> R(4, 1)]

\* Leaky with a larger soil outflow coefficient
Seeping == [Leaky EXCEPT !.theta_s = R(8, 1)]

\* the simulations run: parameter values and the number of timesteps of the
\* time domain.  With theta_s > 0 the leakage loop raises theta_s_prime to the
\* sixth power each timestep; the exact rationals of a third such timestep
\* exceed TLC's 32-bit integers, so that simulation is two timesteps long.
Simulations ==
    { [par |-> Quick, timesteps |-> MaxSteps],
      [par |-> Slow, timesteps |-> MaxSteps],
      [par |-> Leaky, timesteps |-> 2] }

\* ------------------------------------------------------------------------
\* surfacelayer SMART.run
\* ------------------------------------------------------------------------
\* the balance passed on whatever the regime (no placeholder)
EffectiveRain_Unmasked(energy_limited, rain_minus_peva) == rain_minus_peva

\* np.where(energy_limited, rain_minus_peva, np.nan)
EffectiveRain(energy_limited, rain_minus_peva) ==
    IF energy_limited THEN rain_minus_peva ELSE NaN

\* np.where(soil_moisture_contribution >= unmet_peva, unmet_peva, ...)
LimitContribution(contribution, unmet_peva) ==
    IF Ge(contribution, unmet_peva) THEN unmet_peva ELSE contribution

ActualEvapotranspiration(potential_evapotranspiration, contribution) ==
    Add(potential_evapotranspiration, contribution)

SurfaceLayer(precipitation, potential_evapotranspiration, stress, p) ==
    LET corrected_rain == Mul(precipitation, p.theta_t)
        rain_minus_peva == Sub(corrected_rain, potential_evapotranspiration)
        energy_limited == Ge(rain_minus_peva, Zero)
        water_limited == ~energy_limited
        effective_rain == EffectiveRain(energy_limited, rain_minus_peva)
        unmet_peva == IF water_limited THEN Neg(rain_minus_peva) ELSE NaN
        soil_moisture == Mul(stress, p.theta_z)
        provisional == IF water_limited THEN soil_moisture ELSE NaN
        soil_moisture_contribution ==
            LimitContribution(provisional, unmet_peva)
        actual_evapotranspiration ==
            ActualEvapotranspiration(potential_evapotranspiration,
                                     soil_moisture_contribution)
    IN  [energy_limited |-> energy_limited,
         water_limited |-> water_limited,
         unmet_peva |-> unmet_peva,
         soil_moisture |-> soil_moisture,
         throughfall |-> effective_rain,
         snowmelt |-> Zero,
         transpiration |-> Zero,
         evaporation_soil_surface |-> soil_moisture_contribution,
         evaporation_ponded_water |-> Zero,
         evaporation_openwater |-> Zero,
         evapotranspiration |-> actual_evapotranspiration]

\* ------------------------------------------------------------------------
\* subsurface SMART.run
\* ------------------------------------------------------------------------
Sum6(f) == Add(Add(Add(f[1], f[2]), Add(f[3], f[4])), Add(f[5], f[6]))

\* one pass of the percolation loop body for a layer: the four masked
\* assignments in source order, each mask evaluated when its statement runs
PercolateLayer(layer_prv, layer_crt, excess_rain, layer_capacity) ==
    LET space_in_layer == Sub(layer_capacity, layer_prv)
        fits == Le(excess_rain, layer_prv)
        crt1 == IF fits THEN Add(layer_prv, excess_rain) ELSE layer_crt
        excess1 == IF fits THEN Zero ELSE excess_rain
        over == Gt(excess1, layer_prv)
        crt2 == IF over THEN layer_capacity ELSE crt1
        excess2 == IF over THEN Sub(excess1, space_in_layer) ELSE excess1
    IN  [layer |-> crt2, excess_rain |-> excess2]

\* layers 1..i of the percolation loop; remaining[j] is the excess rain left
\* after layer j
RECURSIVE Percolation(_, _, _, _)
Percolation(i, prv, excess_rain, layer_capacity) ==
    IF i = 0 THEN [crt |-> prv, excess_rain |-> excess_rain, remaining |-> <<>>]
    ELSE LET s == Percolation(i - 1, prv, excess_rain, layer_capacity)
             r == PercolateLayer(prv[i], s.crt[i], s.excess_rain,
                                 layer_capacity)
         IN  [crt |-> [s.crt EXCEPT ![i] = r.layer],
              excess_rain |-> r.excess_rain,
              remaining |-> Append(s.remaining, r.excess_rain)]

\* a leak equal to the depth of the layer is taken as well
Leak_NonStrict(layer_crt, flow, leak) == [layer |-> IF Le(leak, layer_crt) THEN Sub(layer_crt, leak) ELSE layer_crt, flow |-> IF Le(leak, layer_crt) THEN Add(flow, leak) ELSE flow, taken |-> Le(leak, layer_crt), leak |-> leak, before |-> layer_crt, into |-> flow]

\* one leak of the leakage loop: taken only if enough_moisture
Leak(layer_crt, flow, leak) ==
    LET enough_moisture == Lt(leak, layer_crt)
    IN  [layer |-> IF enough_moisture THEN Sub(layer_crt, leak) ELSE layer_crt,
         flow |-> IF enough_moisture THEN Add(flow, leak) ELSE flow,
         taken |-> enough_moisture,
         leak |-> leak,
         before |-> layer_crt,
         into |-> flow]

\* the three leaks of layer i (1-based here, i - 1 in the source)
LeakLayer(i, layer_crt, f, theta_s_prime) ==
    LET a == Leak(layer_crt, f.inter_flow,
                  Mul(layer_crt, Pow(theta_s_prime, i)))
        b == Leak(a.layer, f.shallow_gw_flow,
                  Mul(a.layer, Div(theta_s_prime, R(i, 1))))
        c == Leak(b.layer, f.deep_gw_flow,
                  Mul(b.layer, Pow(theta_s_prime, NumLayers + 1 - i)))
    IN  [layer |-> c.layer,
         f |-> [inter_flow |-> a.flow, shallow_gw_flow |-> b.flow,
                deep_gw_flow |-> c.flow],
         leaks |-> <<a, b, c>>]

RECURSIVE Leakage(_, _, _, _)
Leakage(i, crt, f, theta_s_prime) ==
    IF i = 0 THEN [crt |-> crt, f |-> f, leaks |-> <<>>]
    ELSE LET s == Leakage(i - 1, crt, f, theta_s_prime)
             r == LeakLayer(i, s.crt[i], s.f, theta_s_prime)
         IN  [crt |-> [s.crt EXCEPT ![i] = r.layer],
              f |-> r.f,
              leaks |-> Append(s.leaks, r.leaks)]

\* the flows of a water-limited cell left as computed
MaskFlow_Unmasked(water_limited, flow) == flow

\* flow[water_limited] = 0.0
MaskFlow(water_limited, flow) == IF water_limited THEN Zero ELSE flow

\* one pass of the evapotranspiration loop body for a layer; both masks are
\* evaluated before the assignments
SatisfyLayer(layer_prv, layer_crt, unmet_peva, theta_c) ==
    LET enough_moisture == Le(unmet_peva, layer_prv)
        not_enough_moisture == Gt(unmet_peva, layer_prv)
        crt1 == IF enough_moisture THEN Sub(layer_prv, unmet_peva)
                ELSE layer_crt
        unmet1 == IF enough_moisture THEN Zero ELSE unmet_peva
        unmet2 == IF not_enough_moisture
                  THEN Mul(Sub(unmet1, crt1), theta_c) ELSE unmet1
        crt2 == IF not_enough_moisture THEN Zero ELSE crt1
    IN  [layer |-> crt2, unmet_peva |-> unmet2]

RECURSIVE Satisfaction(_, _, _, _, _)
Satisfaction(i, prv, crt, unmet_peva, theta_c) ==
    IF i = 0 THEN [crt |-> crt, unmet_peva |-> unmet_peva, demand |-> <<>>]
    ELSE LET s == Satisfaction(i - 1, prv, crt, unmet_peva, theta_c)
             r == SatisfyLayer(prv[i], s.crt[i], s.unmet_peva, theta_c)
         IN  [crt |-> [s.crt EXCEPT ![i] = r.layer],
              unmet_peva |-> r.unmet_peva,
              demand |-> Append(s.demand, s.unmet_peva)]

\* store[-1] / residence time
Runoff(store_prv, residence_time) == Div(store_prv, residence_time)

\* the inflow taken as a rate and multiplied by dt
Balance_RateInflow(store_prv, flow, runoff) == Sub(Add(store_prv, Mul(flow, dt)), Mul(runoff, dt))

\* store[0][:] = store[-1] + flow - runoff * dt
Balance(store_prv, flow, runoff) == Sub(Add(store_prv, flow), Mul(runoff, dt))

\* no flooring of a negative storage
Floor0_NoClamp(v) == v

\* the value v of a store slot after the mask (store < 0) is set to 0.0; the
\* comparison of the driver's state object with 0 is read as the element-wise
\* mask of its negative values
Floor0(v) == IF Lt(v, Zero) THEN Zero ELSE v

\* store[0][store < 0] = 0.0 : negative values of the current slot are floored
ClampCurrent(store) == [prv |-> store.prv, crt |-> Floor0(store.crt)]

\* a negative current value zeroes the previous slot as well
ClampAll_ZeroesPrevious(store) == [prv |-> IF Lt(store.crt, Zero) THEN Zero ELSE store.prv, crt |-> Floor0(store.crt)]

\* store[store < 0] = 0.0 : negative values of every slot are floored
ClampAll(store) == [prv |-> Floor0(store.prv), crt |-> Floor0(store.crt)]

\* a linear reservoir of the land: runoff, balance, clamp
Route(store, flow, residence_time) ==
    LET runoff == Runoff(store.prv, residence_time)
    IN  [runoff |-> runoff,
         store |-> [prv |-> store.prv,
                    crt |-> Balance(store.prv, flow, runoff)]]

\* regime selection, antecedent soil moisture and quick surface runoff
Infiltration(x, p, prv) ==
    LET excess_rain == Mul(Add(x.throughfall, x.snowmelt), dt)
        unmet_peva ==
            Mul(Add(Add(x.transpiration, x.evaporation_soil_surface),
                    x.evaporation_ponded_water), dt)
        water_limited == IsNaN(excess_rain)
        soil_water == Sum6(prv)
        theta_h_prime == Mul(p.theta_h, Div(soil_water, p.theta_z))
        overland_flow == Mul(theta_h_prime, excess_rain)
    IN  [excess_rain |-> excess_rain,
         unmet_peva |-> unmet_peva,
         water_limited |-> water_limited,
         energy_limited |-> ~water_limited,
         overland_flow |-> overland_flow,
         infiltration |-> Sub(excess_rain, overland_flow),
         layer_capacity |-> Div(p.theta_z, R(NumLayers, 1)),
         theta_s_prime |-> Mul(p.theta_s, Div(soil_water, p.theta_z))]

\* the five reservoirs routed with the flows of the timestep, and the values
\* run returns; a, perc, leak and sat are the results of the earlier sections
Routed(a, perc, leak, sat, flows, p, prv, st) ==
    LET overland == Route(st.overland_store, flows.overland_store, p.theta_sk)
        drain == Route(st.drain_store, flows.drain_store, p.theta_sk)
        inter == Route(st.inter_store, flows.inter_store, p.theta_fk)
        shallow_gw ==
            Route(st.shallow_gw_store, flows.shallow_gw_store, p.theta_gk)
        deep_gw == Route(st.deep_gw_store, flows.deep_gw_store, p.theta_gk)
    IN  [soil_layers |-> [prv |-> prv, crt |-> sat.crt],
         stores |-> [overland_store |-> ClampCurrent(overland.store),
                     drain_store |-> ClampCurrent(drain.store),
                     inter_store |-> ClampAll(inter.store),
                     shallow_gw_store |-> ClampCurrent(shallow_gw.store),
                     deep_gw_store |-> ClampAll(deep_gw.store)],
         surface_runoff |->
             Add(Add(overland.runoff, drain.runoff), inter.runoff),
         subsurface_runoff |-> Add(shallow_gw.runoff, deep_gw.runoff),
         soil_water_stress |-> Div(Sum6(sat.crt), p.theta_z),
         trace |-> [ran |-> TRUE,
                    water_limited |-> a.water_limited,
                    energy_limited |-> a.energy_limited,
                    excess_rain |-> a.excess_rain,
                    unmet_peva |-> a.unmet_peva,
                    layer_capacity |-> a.layer_capacity,
                    infiltration |-> a.infiltration,
                    percolated |-> perc.crt,
                    remaining |-> perc.remaining,
                    leaked |-> leak.crt,
                    leaks |-> leak.leaks,
                    demand |-> sat.demand,
                    unmet_left |-> sat.unmet_peva,
                    flows |-> flows,
                    runoffs |-> [overland_store |-> overland.runoff,
                                 drain_store |-> drain.runoff,
                                 inter_store |-> inter.runoff,
                                 shallow_gw_store |-> shallow_gw.runoff,
                                 deep_gw_store |-> deep_gw.runoff],
                    unclamped |-> [overland_store |-> overland.store.crt,
                                   drain_store |-> drain.store.crt,
                                   inter_store |-> inter.store.crt,
                                   shallow_gw_store |-> shallow_gw.store.crt,
                                   deep_gw_store |-> deep_gw.store.crt]]]

\* masking of the flows of a water-limited cell, the evapotranspiration
\* loop, then routing
Satisfied(a, perc, leak, p, prv, st) ==
    Routed(a, perc, leak,
           Satisfaction(NumLayers, prv, leak.crt, a.unmet_peva, p.theta_c),
           [overland_store |-> MaskFlow(a.water_limited, a.overland_flow),
            drain_store |->
                MaskFlow(a.water_limited, Mul(p.theta_d, perc.excess_rain)),
            inter_store |-> MaskFlow(a.water_limited, leak.f.inter_flow),
            shallow_gw_store |->
                MaskFlow(a.water_limited, leak.f.shallow_gw_flow),
            deep_gw_store |-> MaskFlow(a.water_limited, leak.f.deep_gw_flow)],
           p, prv, st)

\* saturation excess and the leakage loop, then the rest of run
Leaked(a, perc, p, prv, st) ==
    Satisfied(a, perc,
              Leakage(NumLayers, perc.crt,
                      [inter_flow |->
                           Mul(Sub(One, p.theta_d), perc.excess_rain),
                       shallow_gw_flow |->
                           IF a.energy_limited THEN Zero ELSE NaN,
                       deep_gw_flow |->
                           IF a.energy_limited THEN Zero ELSE NaN],
                      a.theta_s_prime),
              p, prv, st)

\* the percolation loop on the current layers (initialised to the previous
\* ones), then the rest of run
Percolated(a, p, prv, st) ==
    Leaked(a, Percolation(NumLayers, prv, a.infiltration, a.layer_capacity),
           p, prv, st)

SubSurface(x, p, layers, st) ==
    Percolated(Infiltration(x, p, layers.prv), p, layers.prv, st)

\* ------------------------------------------------------------------------
\* openwater SMART.run
\* ------------------------------------------------------------------------
\* the provisional outflow kept when the provisional store is negative
RiverFlow_NoCap(store, inflow, store_prv, river_flow) == river_flow

\* np.where(store < 0, 0.95 * (inflow + river_store[-1] / dt), river_flow)
RiverFlow(store, inflow, store_prv, river_flow) ==
    IF Lt(store, Zero)
    THEN Mul(R(95, 100), Add(inflow, Div(store_prv, dt)))
    ELSE river_flow

\* river_store[-1] + ((surface_runoff + subsurface_runoff) - river_flow) * dt
RiverBalance(store_prv, inflow, river_flow) ==
    Add(store_prv, Mul(Sub(inflow, river_flow), dt))

OpenWater(surface_runoff, subsurface_runoff, p, river_store) ==
    LET inflow == Add(surface_runoff, subsurface_runoff)
        river_flow0 == Div(river_store.prv, p.theta_rk)
        store == RiverBalance(river_store.prv, inflow, river_flow0)
        river_flow == RiverFlow(store, inflow, river_store.prv, river_flow0)
    IN  [river_store |->
             [prv |-> river_store.prv,
              crt |-> RiverBalance(river_store.prv, inflow, river_flow)],
         river_flow |-> river_flow,
         trace |-> [ran |-> TRUE, inflow |-> inflow, provisional_flow |-> river_flow0,
                    provisional_store |-> store,
                    capped |-> Lt(store, Zero)]]

\* ------------------------------------------------------------------------
\* the pipeline surfacelayer -> subsurface -> openwater, one cell
\* ------------------------------------------------------------------------
VARIABLES pc, step, par, timesteps, precipitation, potential_evapotranspiration, exchanger, soil_layers, stores, river_store, evapotranspiration, outgoing_flow, sl_trace, ss_trace, ow_trace

vars == <<pc, step, par, timesteps, precipitation, potential_evapotranspiration, exchanger, soil_layers, stores, river_store, evapotranspiration, outgoing_flow, sl_trace, ss_trace, ow_trace>>

StoreNames == {"overland_store", "drain_store", "inter_store", "shallow_gw_store", "deep_gw_store"}

\* a state as initialise leaves it: the previous-timestep slot zeroed
Initialised == [prv |-> Zero, crt |-> Zero]

\* after construction and the three initialise calls; the exchanger holds the
\* driver's initial values of the fields transferred between components
Init ==
    /\ pc = "surfacelayer"
    /\ step = 0
    /\ \E sim \in Simulations : par = sim.par /\ timesteps = sim.timesteps
    /\ precipitation = Zero
    /\ potential_evapotranspiration = Zero
    /\ exchanger = [throughfall |-> Zero, snowmelt |-> Zero,
                    transpiration |-> Zero,
                    evaporation_soil_surface |-> Zero,
                    evaporation_ponded_water |-> Zero,
                    evaporation_openwater |-> Zero,
                    surface_runoff |-> Zero, subsurface_runoff |-> Zero,
                    soil_water_stress |-> Zero, water_level |-> Zero]
    /\ soil_layers = [prv |-> [i \in Layers |-> Zero],
                      crt |-> [i \in Layers |-> Zero]]
    /\ stores = [n \in StoreNames |-> Initialised]
    /\ river_store = Initialised
    /\ evapotranspiration = Zero
    /\ outgoing_flow = Zero
    /\ sl_trace = [ran |-> FALSE]
    /\ ss_trace = [ran |-> FALSE]
    /\ ow_trace = [ran |-> FALSE]

\* surfacelayer SMART.run on the forcing of the timestep
SurfaceLayerRun ==
    /\ pc = "surfacelayer"
    /\ step < timesteps
    /\ \E pr \in PrecipitationSet, pe \in PotentialEvapotranspirationSet :
          \E r \in {SurfaceLayer(pr, pe, exchanger.soil_water_stress, par)} :
              /\ precipitation' = pr
              /\ potential_evapotranspiration' = pe
              /\ exchanger' =
                     [exchanger EXCEPT
                         !.throughfall = r.throughfall,
                         !.snowmelt = r.snowmelt,
                         !.transpiration = r.transpiration,
                         !.evaporation_soil_surface =
                             r.evaporation_soil_surface,
                         !.evaporation_ponded_water =
                             r.evaporation_ponded_water,
                         !.evaporation_openwater = r.evaporation_openwater]
              /\ evapotranspiration' = r.evapotranspiration
              /\ sl_trace' = [ran |-> TRUE,
                              energy_limited |-> r.energy_limited,
                              water_limited |-> r.water_limited,
                              unmet_peva |-> r.unmet_peva,
                              soil_moisture |-> r.soil_moisture,
                              soil_water_stress |->
                                  exchanger.soil_water_stress]
    /\ pc' = "subsurface"
    /\ UNCHANGED <<step, par, timesteps, soil_layers, stores, river_store, outgoing_flow, ss_trace, ow_trace>>

\* subsurface SMART.run
SubSurfaceRun ==
    /\ pc = "subsurface"
    /\ \E r \in {SubSurface(exchanger, par, soil_layers, stores)} :
           /\ soil_layers' = r.soil_layers
           /\ stores' = r.stores
           /\ exchanger' = [exchanger EXCEPT
                               !.surface_runoff = r.surface_runoff,
                               !.subsurface_runoff = r.subsurface_runoff,
                               !.soil_water_stress = r.soil_water_stress]
           /\ ss_trace' = r.trace
    /\ pc' = "openwater"
    /\ UNCHANGED <<step, par, timesteps, precipitation, potential_evapotranspiration, river_store, evapotranspiration, outgoing_flow, sl_trace, ow_trace>>

\* openwater SMART.run
OpenWaterRun ==
    /\ pc = "openwater"
    /\ \E r \in {OpenWater(exchanger.surface_runoff, exchanger.subsurface_runoff, par, river_store)} :
           /\ river_store' = r.river_store
           /\ exchanger' = [exchanger EXCEPT !.water_level = r.river_store.crt]
           /\ outgoing_flow' = r.river_flow
           /\ ow_trace' = r.trace
    /\ pc' = "increment"
    /\ UNCHANGED <<step, par, timesteps, precipitation, potential_evapotranspiration, soil_layers, stores, evapotranspiration, sl_trace, ss_trace>>

\* the driver ends the timestep: the current value of every state becomes
\* the previous one of the next timestep
Increment ==
    /\ pc = "increment"
    /\ soil_layers' = [soil_layers EXCEPT !.prv = soil_layers.crt]
    /\ stores' = [n \in StoreNames |-> [stores[n] EXCEPT !.prv = stores[n].crt]]
    /\ river_store' = [river_store EXCEPT !.prv = river_store.crt]
    /\ step' = step + 1
    /\ pc' = "surfacelayer"
    /\ UNCHANGED <<par, timesteps, precipitation, potential_evapotranspiration, exchanger, evapotranspiration, outgoing_flow, sl_trace, ss_trace, ow_trace>>

Next == SurfaceLayerRun \/ SubSurfaceRun \/ OpenWaterRun \/ Increment

Spec == Init /\ [][Next]_vars

\* ------------------------------------------------------------------------
\* the percolation section of a third timestep with leakage
\* ------------------------------------------------------------------------
\* With theta_s > 0 a third timestep cannot be computed whole (see
\* Simulations), but its percolation section can: the specification below
\* starts where the driver stands when the subsurface component is about to
\* run for the third time in a simulation with the Seeping parameter
\* values, and takes run up to the end of its percolation loop.

\* rates of the forcing of that simulation
SeepingPrecipitation == {R(1, 4), R(3, 4), R(1, 1)}

SeepingEvapotranspiration == {R(0, 1), R(1, 4)}

\* what the driver holds between two timesteps: the value of each state
\* and the soil water stress transferred to the surface layer
Start ==
    [soil_layers |-> [i \in Layers |-> Zero],
     stores |-> [n \in StoreNames |-> Zero],
     river_store |-> Zero,
     surface_runoff |-> Zero,
     subsurface_runoff |-> Zero,
     soil_water_stress |-> Zero]

\* the open water run of a timestep and the end of the timestep
Flowed(s, r, p) ==
    [soil_layers |-> r.soil_layers.crt,
     stores |-> [n \in StoreNames |-> r.stores[n].crt],
     river_store |->
         OpenWater(r.surface_runoff, r.subsurface_runoff, p,
                   [prv |-> s.river_store, crt |-> s.river_store])
             .river_store.crt,
     surface_runoff |-> r.surface_runoff,
     subsurface_runoff |-> r.subsurface_runoff,
     soil_water_stress |-> r.soil_water_stress]

\* the subsurface run of a timestep on the surface layer's transfers x
Drained(s, x, p) ==
    Flowed(s,
           SubSurface(x, p,
                      [prv |-> s.soil_layers, crt |-> s.soil_layers],
                      [n \in StoreNames |->
                          [prv |-> s.stores[n], crt |-> s.stores[n]]]),
           p)

\* one whole timestep from s under precipitation pr and potential
\* evapotranspiration pe
Timestep(s, pr, pe, p) ==
    Drained(s, SurfaceLayer(pr, pe, s.soil_water_stress, p), p)

\* the third subsurface run of the Seeping simulation is about to start
PercolationInit ==
    \E pr1, pr2, pr \in SeepingPrecipitation :
    \E pe1, pe2, pe \in SeepingEvapotranspiration :
    \E s1 \in {Timestep(Start, pr1, pe1, Seeping)} :
    \E s \in {Timestep(s1, pr2, pe2, Seeping)} :
    \E x \in {SurfaceLayer(pr, pe, s.soil_water_stress, Seeping)} :
        /\ pc = "subsurface"
        /\ step = 2
        /\ par = Seeping
        /\ timesteps = 3
        /\ precipitation = pr
        /\ potential_evapotranspiration = pe
        /\ exchanger = [throughfall |-> x.throughfall,
                        snowmelt |-> x.snowmelt,
                        transpiration |-> x.transpiration,
                        evaporation_soil_surface |->
                            x.evaporation_soil_surface,
                        evaporation_ponded_water |->
                            x.evaporation_ponded_water,
                        evaporation_openwater |-> x.evaporation_openwater,
                        surface_runoff |-> s.surface_runoff,
                        subsurface_runoff |-> s.subsurface_runoff,
                        soil_water_stress |-> s.soil_water_stress,
                        water_level |-> s.river_store]
        /\ soil_layers = [prv |-> s.soil_layers, crt |-> s.soil_layers]
        /\ stores = [n \in StoreNames |->
                         [prv |-> s.stores[n], crt |-> s.stores[n]]]
        /\ river_store = [prv |-> s.river_store, crt |-> s.river_store]
        /\ evapotranspiration = x.evapotranspiration
        /\ outgoing_flow = Zero
        /\ sl_trace = [ran |-> TRUE,
                       energy_limited |-> x.energy_limited,
                       water_limited |-> x.water_limited,
                       unmet_peva |-> x.unmet_peva,
                       soil_moisture |-> x.soil_moisture,
                       soil_water_stress |-> s.soil_water_stress]
        /\ ss_trace = [ran |-> FALSE]
        /\ ow_trace = [ran |-> FALSE]

\* subsurface SMART.run up to the end of its percolation loop
PercolationRun ==
    /\ pc = "subsurface"
    /\ \E a \in {Infiltration(exchanger, par, soil_layers.prv)} :
       \E perc \in {Percolation(NumLayers, soil_layers.prv, a.infiltration, a.layer_capacity)} :
           /\ soil_layers' = [soil_layers EXCEPT !.crt = perc.crt]
           /\ ss_trace' = [ran |-> FALSE,
                           water_limited |-> a.water_limited,
                           energy_limited |-> a.energy_limited,
                           excess_rain |-> a.excess_rain,
                           layer_capacity |-> a.layer_capacity,
                           infiltration |-> a.infiltration,
                           percolated |-> perc.crt,
                           remaining |-> perc.remaining]
    /\ pc' = "leakage"
    /\ UNCHANGED <<step, par, timesteps, precipitation, potential_evapotranspiration, exchanger, stores, river_store, evapotranspiration, outgoing_flow, sl_trace, ow_trace>>

PercolationNext == PercolationRun

PercolationSpec == PercolationInit /\ [][PercolationNext]_vars

SurfaceLayerDone == pc \in {"subsurface", "openwater", "increment"}

SubSurfaceDone == pc \in {"openwater", "increment"}

OpenWaterDone == pc = "increment"

\* run is past its percolation loop
PercolationDone == SubSurfaceDone \/ pc = "leakage"

\* ------------------------------------------------------------------------
\* properties
\* ------------------------------------------------------------------------
NonNegative(v) == Ge(v, Zero)

Min(a, b) == IF Le(a, b) THEN a ELSE b

Max0(v) == IF Ge(v, Zero) THEN v ELSE Zero

\* residence time of each land reservoir
ResidenceTime(n, p) ==
    CASE n \in {"overland_store", "drain_store"} -> p.theta_sk
      [] n = "inter_store" -> p.theta_fk
      [] OTHER -> p.theta_gk

\* C1: after each subsurface run every one of the six soil-layer depths of
\* the cell is >= 0, in the energy-limited and in the water-limited regime.
C1_SoilLayersNonNegative ==
    SubSurfaceDone => \A i \in Layers : NonNegative(soil_layers.crt[i])

\* C2: after percolation every layer depth is <= layer_capacity = theta_z/6,
\* for previous depths within [0, theta_z/6] and non-negative excess rain.
C2_LayerCapacityBound ==
    (/\ SubSurfaceDone
     /\ NonNegative(ss_trace.excess_rain)
     /\ \A i \in Layers : /\ NonNegative(soil_layers.prv[i])
                          /\ Le(soil_layers.prv[i], ss_trace.layer_capacity))
    => \A i \in Layers : Le(ss_trace.percolated[i], ss_trace.layer_capacity)

\* C3: each of the five land reservoir storages is >= 0 after each run; an
\* update prev + inflow - (prev/residence_time)*dt that is negative is
\* floored to 0, and no negative storage is carried to the next timestep.
C3_StoresNonNegative ==
    \A n \in StoreNames :
        /\ NonNegative(stores[n].prv)
        /\ SubSurfaceDone =>
              /\ NonNegative(stores[n].crt)
              /\ Lt(ss_trace.unclamped[n], Zero) => stores[n].crt = Zero
              /\ ss_trace.unclamped[n] =
                     Sub(Add(stores[n].prv, ss_trace.flows[n]),
                         Mul(Div(stores[n].prv, ResidenceTime(n, par)), dt))

\* a run in which the unclamped update of a reservoir is negative
C3_Witness ==
    /\ SubSurfaceDone
    /\ \E n \in StoreNames :
          Lt(ss_trace.unclamped[n], Zero) /\ stores[n].crt = Zero

\* C4: the channel outflow is prev_storage/theta_rk unless the provisional
\* storage is strictly negative, and then 0.95*(inflow + prev_storage/dt);
\* in both cases the channel storage is >= 0, in every run of a sequence from
\* initialise; with prev_storage = 0 and inflow = 0 the cap is not taken and
\* outflow = new_storage = 0.
C4_ChannelSafetyCap ==
    /\ NonNegative(river_store.prv)
    /\ OpenWaterDone =>
          LET inflow == Add(exchanger.surface_runoff,
                            exchanger.subsurface_runoff)
              linear == Div(river_store.prv, par.theta_rk)
              provisional ==
                  Add(river_store.prv, Mul(Sub(inflow, linear), dt))
              capped == Mul(R(95, 100), Add(inflow, Div(river_store.prv, dt)))
          IN  /\ outgoing_flow =
                     IF Lt(provisional, Zero) THEN capped ELSE linear
              /\ NonNegative(river_store.crt)
              /\ (river_store.prv = Zero /\ inflow = Zero) =>
                     /\ ~ow_trace.capped
                     /\ outgoing_flow = Zero
                     /\ river_store.crt = Zero

\* a run that takes the cap
C4_Witness ==
    /\ OpenWaterDone
    /\ ow_trace.capped
    /\ Lt(ow_trace.provisional_store, Zero)
    /\ outgoing_flow # ow_trace.provisional_flow

\* C5: exactly one regime applies in the surfacelayer run and exactly one in
\* the subsurface run of a timestep (the same one); in a water-limited cell
\* the five reservoir inflows are exactly 0, and in an energy-limited cell the
\* evapotranspiration loop removes nothing from any soil layer.
C5_RegimePartition ==
    /\ SurfaceLayerDone => (sl_trace.energy_limited # sl_trace.water_limited)
    /\ SubSurfaceDone =>
          /\ ss_trace.energy_limited # ss_trace.water_limited
          /\ ss_trace.water_limited = sl_trace.water_limited
          /\ ss_trace.water_limited =>
                 \A n \in StoreNames : ss_trace.flows[n] = Zero
          /\ ss_trace.energy_limited =>
                 /\ soil_layers.crt = ss_trace.leaked
                 /\ \A n \in StoreNames : ~IsNaN(ss_trace.flows[n])

\* a water-limited run over a wet soil column, and evapotranspiration met
C5_Witness ==
    /\ SubSurfaceDone
    /\ ss_trace.water_limited
    /\ \E i \in Layers : Gt(soil_layers.prv[i], Zero)
    /\ soil_layers.crt # soil_layers.prv

\* C6: with precipitation = 0, potential evapotranspiration = 0 and all
\* states zero, one timestep of the pipeline yields 0 for every output.
C6_ZeroForcing ==
    (/\ OpenWaterDone
     /\ step = 0
     /\ precipitation = Zero
     /\ potential_evapotranspiration = Zero)
    => /\ exchanger.throughfall = Zero
       /\ exchanger.snowmelt = Zero
       /\ exchanger.transpiration = Zero
       /\ exchanger.evaporation_soil_surface = Zero
       /\ exchanger.evaporation_ponded_water = Zero
       /\ exchanger.evaporation_openwater = Zero
       /\ exchanger.surface_runoff = Zero
       /\ exchanger.subsurface_runoff = Zero
       /\ exchanger.soil_water_stress = Zero
       /\ evapotranspiration = Zero
       /\ outgoing_flow = Zero

\* C7: in an energy-limited cell the surfacelayer run returns actual
\* evapotranspiration equal to the potential evapotranspiration.
C7_EnergyLimitedActualEqualsPotential ==
    (SurfaceLayerDone /\ sl_trace.energy_limited)
    => evapotranspiration = potential_evapotranspiration

\* C8: in a water-limited cell the surfacelayer run returns actual
\* evapotranspiration <= potential evapotranspiration, with soil_contribution
\* = min(soil_water_stress*theta_z, unmet_demand) and soil_water_stress in
\* [0, 1].
C8_WaterLimitedActualAtMostPotential ==
    (SurfaceLayerDone /\ sl_trace.water_limited)
    => /\ Le(evapotranspiration, potential_evapotranspiration)
       /\ exchanger.evaporation_soil_surface =
              Min(sl_trace.soil_moisture, sl_trace.unmet_peva)
       /\ NonNegative(sl_trace.soil_water_stress)
       /\ Le(sl_trace.soil_water_stress, One)

\* C9 as stated: the exchange fields of the surfacelayer run never carry the
\* not-a-number placeholder; throughfall is exactly 0 in water-limited cells
\* and evaporation_soil_surface exactly 0 in energy-limited cells.
C9_NoPlaceholder ==
    SurfaceLayerDone =>
        /\ ~IsNaN(exchanger.throughfall)
        /\ ~IsNaN(exchanger.evaporation_soil_surface)
        /\ sl_trace.water_limited => exchanger.throughfall = Zero
        /\ sl_trace.energy_limited =>
               exchanger.evaporation_soil_surface = Zero

\* C9 amended: throughfall is the balance in energy-limited cells and the
\* not-a-number placeholder in water-limited cells; evaporation_soil_surface
\* is soil_contribution in water-limited cells and the placeholder in
\* energy-limited cells; the other four fields are exactly 0.
C9_PlaceholderInMaskedBranch ==
    SurfaceLayerDone =>
        LET balance == Sub(Mul(precipitation, par.theta_t),
                           potential_evapotranspiration)
        IN  /\ sl_trace.energy_limited =>
                   /\ exchanger.throughfall = balance
                   /\ IsNaN(exchanger.evaporation_soil_surface)
            /\ sl_trace.water_limited =>
                   /\ IsNaN(exchanger.throughfall)
                   /\ exchanger.evaporation_soil_surface =
                          Min(Mul(sl_trace.soil_water_stress, par.theta_z),
                              Neg(balance))
            /\ exchanger.snowmelt = Zero
            /\ exchanger.transpiration = Zero
            /\ exchanger.evaporation_ponded_water = Zero
            /\ exchanger.evaporation_openwater = Zero

\* a water-limited run with a positive soil contribution
C9_Witness ==
    /\ SurfaceLayerDone
    /\ sl_trace.water_limited
    /\ Gt(exchanger.evaporation_soil_surface, Zero)
    /\ Lt(exchanger.evaporation_soil_surface, sl_trace.soil_moisture)

\* C10: each land reservoir gets max(0, prev + inflow - (prev/residence
\* time)*dt) exactly, the runoff reported downstream is the pre-clamp
\* prev/residence time, and the channel gets prev + (inflow - outflow)*dt
\* with the (possibly capped) outflow it reports.
C10_MassConsistency ==
    /\ SubSurfaceDone =>
          LET runoff(n) == Div(stores[n].prv, ResidenceTime(n, par))
          IN  /\ \A n \in StoreNames :
                     stores[n].crt =
                         Max0(Sub(Add(stores[n].prv, ss_trace.flows[n]),
                                  Mul(runoff(n), dt)))
              /\ exchanger.surface_runoff =
                     Add(Add(runoff("overland_store"), runoff("drain_store")),
                         runoff("inter_store"))
              /\ exchanger.subsurface_runoff =
                     Add(runoff("shallow_gw_store"), runoff("deep_gw_store"))
    /\ OpenWaterDone =>
          river_store.crt =
              Add(river_store.prv,
                  Mul(Sub(Add(exchanger.surface_runoff,
                              exchanger.subsurface_runoff),
                          outgoing_flow), dt))

\* a timestep with a land reservoir that releases runoff and keeps water,
\* and a capped channel outflow
C10_Witness ==
    /\ OpenWaterDone
    /\ ow_trace.capped
    /\ \E n \in StoreNames :
          /\ Gt(stores[n].prv, Zero)
          /\ Gt(stores[n].crt, Zero)
          /\ stores[n].crt # stores[n].prv

\* the reservoirs whose clamping statement indexes the whole state object
WholeStateClamped == {"inter_store", "deep_gw_store"}

\* C11: a run of the subsurface or of the open water component leaves the
\* previous-timestep value of the six soil layers, of the five land
\* reservoirs and of the channel store unchanged; only the current value is
\* written, in the clamping step of each reservoir too.
C11_PreviousUnchanged ==
    [][(pc = "subsurface" \/ pc = "openwater") =>
          (/\ soil_layers'.prv = soil_layers.prv
           /\ \A n \in StoreNames : stores'[n].prv = stores[n].prv
           /\ river_store'.prv = river_store.prv)]_vars

\* a run that clamped a reservoir holding water at the previous timestep,
\* with the statement that indexes the whole state
C11_Witness ==
    /\ SubSurfaceDone
    /\ \E n \in WholeStateClamped :
          /\ Lt(ss_trace.unclamped[n], Zero)
          /\ Gt(stores[n].prv, Zero)
          /\ stores[n].crt = Zero

\* unmet evapotranspiration carried out of layer i by the loop
Carried(i) ==
    IF i = NumLayers THEN ss_trace.unmet_left ELSE ss_trace.demand[i + 1]

\* C12: in a water-limited cell the unmet evapotranspiration is satisfied
\* from layer 1 to layer 6: if unmet_peva <= prev_depth the layer becomes
\* prev_depth - unmet_peva and unmet_peva becomes 0; otherwise the layer
\* becomes 0 and the carried shortfall is (unmet_peva - prev_depth)*theta_c,
\* prev_depth being the depth at the previous timestep, whatever the leakage
\* loop of the same run computed.
C12_SatisfiedFromPreviousDepth ==
    (SubSurfaceDone /\ ss_trace.water_limited) =>
        \A i \in Layers :
            IF Le(ss_trace.demand[i], soil_layers.prv[i])
            THEN /\ soil_layers.crt[i] =
                        Sub(soil_layers.prv[i], ss_trace.demand[i])
                 /\ Carried(i) = Zero
            ELSE /\ soil_layers.crt[i] = Zero
                 /\ Carried(i) =
                        Mul(Sub(ss_trace.demand[i], soil_layers.prv[i]),
                            par.theta_c)

\* the leaks of a layer, in the order of the source
LeakTargets == 1..3

\* theta_s_prime as run computes it from the previous soil water
ThetaSPrime == Mul(par.theta_s, Div(Sum6(soil_layers.prv), par.theta_z))

\* the fraction of the layer's depth that leak k of layer i asks for
LeakFraction(i, k) ==
    CASE k = 1 -> Pow(ThetaSPrime, i)
      [] k = 2 -> Div(ThetaSPrime, R(i, 1))
      [] OTHER -> Pow(ThetaSPrime, NumLayers + 1 - i)

\* C13: in the leakage step a leak (interflow, shallow groundwater, deep
\* groundwater, layer by layer from top to bottom) is subtracted from the
\* layer and added to its target flow only if it is strictly less than the
\* layer's current depth; a layer of positive depth stays positive and a
\* layer of zero depth leaks nothing.
C13_LeakOnlyIfStrictlyLess ==
    SubSurfaceDone =>
        \A i \in Layers : \A k \in LeakTargets :
            LET l == ss_trace.leaks[i][k]
            IN  /\ l.before = IF k = 1 THEN ss_trace.percolated[i]
                               ELSE ss_trace.leaks[i][k - 1].layer
                /\ l.leak = Mul(l.before, LeakFraction(i, k))
                /\ l.taken <=> Lt(l.leak, l.before)
                /\ l.taken => /\ l.layer = Sub(l.before, l.leak)
                              /\ l.flow = Add(l.into, l.leak)
                /\ ~l.taken => l.layer = l.before /\ l.flow = l.into
                /\ Gt(l.before, Zero) => Gt(l.layer, Zero)
                /\ l.before = Zero => ~l.taken /\ l.layer = Zero
                /\ k = 3 => ss_trace.leaked[i] = l.layer

\* a run in which a layer holding water refuses one leak (the amount is not
\* below its depth) and gives another
C13_Witness ==
    /\ SubSurfaceDone
    /\ \E i \in Layers : \E j, k \in LeakTargets :
          /\ Gt(ss_trace.leaks[i][j].before, Zero)
          /\ Gt(ss_trace.leaks[i][j].leak, Zero)
          /\ ~ss_trace.leaks[i][j].taken
          /\ Gt(ss_trace.leaks[i][k].leak, Zero)
          /\ ss_trace.leaks[i][k].taken

\* C14: percolation conserves water in an energy-limited cell: the six
\* layer depths after percolation plus the excess rain remaining after
\* layer 6 add up to the six previous depths plus the infiltrating excess
\* rain (excess rain minus overland flow).
C14_PercolationConservesWater ==
    (PercolationDone /\ ss_trace.energy_limited) =>
        Add(Sum6(ss_trace.percolated), ss_trace.remaining[NumLayers]) =
            Add(Sum6(soil_layers.prv), ss_trace.infiltration)

\* C15: the excess rain remaining after each layer of the percolation loop
\* is never negative, and so the five reservoir inflows (overland, drain,
\* inter, shallow and deep groundwater flow) are >= 0 in every timestep of
\* a run sequence from initialise with non-negative throughfall.
C15_InflowsNonNegative ==
    SubSurfaceDone =>
        /\ \A i \in Layers : ~Lt(ss_trace.remaining[i], Zero)
        /\ \A n \in StoreNames : NonNegative(ss_trace.flows[n])

\* the second half of C15 alone: a negative reservoir inflow
C15_SomeInflowNegative ==
    SubSurfaceDone /\ \E n \in StoreNames : Lt(ss_trace.flows[n], Zero)

=============================================================================
